---- MODULE Spec2Model ----
(***************************************************************************)
(* Tree-structured recursive networks of pysem (networks.py, lstm.py):     *)
(* the computation graph built from a dependency parse, the repeated-pass  *)
(* forward and backward traversals over it, the gradient accumulators and  *)
(* the parameter update.                                                   *)
(*                                                                         *)
(* Numbers: the embedding dimension is 1, so a vector or a matrix is one   *)
(* integer, np.dot and np.outer are products and the L2 norm is the        *)
(* absolute value.  tanh is the saturation of its argument at +-TanhSat;   *)
(* tanh_grad is computed as the code computes it, from the activated       *)
(* value.  The learning rate is a multiple of every count the updater      *)
(* divides by, so that each division of the code is exact on integers.     *)
(*                                                                         *)
(* The chain models (RecurrentNetwork, LSTM) are a second specification,   *)
(* ChainSpec: a padded batch of sentences, the forward pass over the       *)
(* sequence positions and back-propagation through time with the update    *)
(* of the word embeddings.  sigmoid is the saturation at 0 and 1.          *)
(*                                                                         *)
(* Further specifications run the tree models on other inputs: SaveSpec    *)
(* adds save and load, AnySpec the parse of the empty string, FixedSpec    *)
(* known vectors on the tree of sat and cat, CyclicSpec node lists with a  *)
(* cycle among the heads.  ModelSpec constructs either a tree or a chain   *)
(* model, and ClipSpec calls the four gradient-clipping helpers on their   *)
(* own with a gradient and a clipval argument.                             *)
(***************************************************************************)
EXTENDS Integers, Sequences, FiniteSets, TLC

\* ------------------------------------------------------------- bounds
MaxNodes == 3
MaxCalls == 3
TanhSat == 3
MaxMagnitude == 700
MaxLen == 2
MaxBatch == 2
MaxVec == 4
MaxGrad == 7
MaxClipval == 6

\* ------------------------------------------------------------- constants
\* clipval, the default ceiling of clip_gradient
ClipVal == 5

\* the known dependency labels (a sample of RecursiveModel.deps)
Deps == {"ROOT", "nsubj", "det"}

\* the labels the parser gives to a token that is not the root: a known one
\* and iobj, which RecursiveModel.deps does not list
NonRootDeps == {"nsubj", "iobj"}

\* the vocabulary the model is constructed with
Vocab == {"cat", "sat"}

\* the surface forms a token can have: vocabulary words and one word that is
\* not in the vocabulary
Texts == {"cat", "zzz"}

\* the model variants that share the tree traversal
Nets == {"dependency", "holographic"}

\* the error gradients handed to backward_pass
ErrorGrads == {-2}

RECURSIVE LcmUpTo(_)
Gcd(a, b) == CHOOSE g \in 1..a : /\ a % g = 0 /\ b % g = 0
                                  /\ \A h \in 1..a : (a % h = 0 /\ b % h = 0) => h <= g
LcmUpTo(n) == IF n <= 1 THEN 1 ELSE (LcmUpTo(n - 1) * n) \div Gcd(n, LcmUpTo(n - 1))

\* the learning rate handed to backward_pass: the least integer every count of
\* a tree of at most MaxNodes nodes divides
Rate == LcmUpTo(MaxNodes)

\* ------------------------------------------------------------- numerics
Abs(x) == IF x < 0 THEN -x ELSE x

tanh(x) == IF x > TanhSat THEN TanhSat ELSE IF x < -TanhSat THEN -TanhSat ELSE x

tanh_grad(x) == 1 - x * x

\* defaultdict: a missing key reads as the default, zeros, and is inserted
Lookup(d, k) == IF k \in DOMAIN d THEN d[k] ELSE 0

\* faulty variant of the defaultdict read: the entry read is set to zero
zero_entry(d, k) == [x \in DOMAIN d \cup {k} |-> IF x = k THEN 0 ELSE d[x]]

Touch(d, k) == IF k \in DOMAIN d THEN d ELSE d @@ (k :> 0)

AddTo(d, k, x) == [Touch(d, k) EXCEPT ![k] = @ + x]

Empty == [k \in {} |-> 0]

\* ------------------------------------------------------------- trees
\* a token as the parser returns it: surface text, dependency label, head
Token == [text : Texts, dep : {"ROOT"} \cup NonRootDeps, head : 1..MaxNodes]

RECURSIVE HeadIter(_, _, _)
HeadIter(t, n, k) == IF k = 0 THEN n ELSE HeadIter(t, t[n].head, k - 1)

Roots(t) == {n \in DOMAIN t : t[n].head = n}

\* exactly one self-headed root, every node reaches it by head pointers; the
\* root carries the label ROOT and no other node does
WellFormed(t) ==
    /\ \A n \in DOMAIN t : t[n].head \in DOMAIN t
    /\ Cardinality(Roots(t)) = 1
    /\ \A n \in DOMAIN t : HeadIter(t, n, Len(t)) \in Roots(t)
    /\ \A n \in DOMAIN t : (t[n].dep = "ROOT") <=> (n \in Roots(t))

Trees == UNION {{t \in [1..n -> Token] : WellFormed(t)} : n \in 1..MaxNodes}

RECURSIVE PathLen(_, _)
PathLen(t, n) == IF t[n].head = n THEN 1 ELSE 1 + PathLen(t, t[n].head)

Max(S) == CHOOSE x \in S : \A y \in S : y <= x

\* number of nodes on the longest root-to-leaf path
Depth(t) == Max({PathLen(t, n) : n \in DOMAIN t})

VARIABLES
    net,        \* the model variant
    corpus,     \* the parsed sentence the corpus hands to forward_pass
    tree,       \* self.tree: the node list of the current sentence
    computed,   \* node.computed
    embedding,  \* node.embedding
    hasEmb,     \* the nodes whose embedding attribute is set
    gradient,   \* node.gradient
    hasGrad,    \* the nodes whose gradient attribute is set
    weights,    \* self.weights
    biases,     \* self.biases
    wm,         \* self.wm
    vectors,    \* self.vectors
    wgrads,     \* self.wgrads
    bgrads,     \* self.bgrads
    xgrads,     \* self.xgrads
    dwm,        \* self.dwm
    pc,         \* the call in progress: idle, fwd (compute_embeddings), bwd
    pos,        \* position of the for loop in the node list
    passNo,     \* number of the full pass of the running traversal
    calls,      \* number of forward_pass and backward_pass calls made
    visits,     \* times each node was given a value in the running traversal
    marked,     \* nodes marked computed during the running full pass
    last,       \* the call that returned last: none, fwd or bwd
    log,        \* what the running backward pass accumulated and applied
    before,     \* the parameters when the running backward pass was called
    cell,       \* the chain variant: rnn (RecurrentNetwork) or lstm (LSTM)
    batch,      \* self.batch: the padded token sequences
    bsize,      \* self.bsize
    seqlen,     \* self.seqlen
    acts,       \* the activations of the forward pass: self.hs, self.ys, ...
    params,     \* the weights and biases of the chain model
    grads,      \* the gradients the backward pass stores: self.dwhh, ...
    file,       \* the pickle file that save writes and load reads
    raised,     \* the exception the last save or load raised, or none
    clip        \* a call of a gradient-clipping helper: arguments and result

\* the state of the tree models alone
treeVars == <<tree, computed, embedding, hasEmb, gradient, hasGrad, weights,
              biases, wm, wgrads, bgrads, dwm, pc, pos, passNo, visits, marked>>

\* the state of the chain models alone
chainVars == <<cell, batch, bsize, seqlen, acts, params, grads>>

\* the state that only save and load change
ioVars == <<file, raised>>

\* the state of a call of a clipping helper on its own
clipVars == <<clip>>

vars == <<net, corpus, tree, computed, embedding, hasEmb, gradient, hasGrad,
          weights, biases, wm, vectors, wgrads, bgrads, xgrads, dwm,
          pc, pos, passNo, calls, visits, marked, last, log, before,
          cell, batch, bsize, seqlen, acts, params, grads, file, raised, clip>>

N == Len(tree)

Nodes == 1..N

\* ------------------------------------------------------------- helpers
\* faulty variant of get_children: no node has a child
no_children(node) == {}

get_children(node) == {c \in Nodes : c # node /\ tree[c].head = node}

get_parent(node) == tree[node].head

Root == CHOOSE n \in Nodes : tree[n].head = n

get_root_embedding == embedding[Root]

\* the nodes of a set in the order of the node list
RECURSIVE InOrder(_)
InOrder(S) == IF S = {} THEN <<>>
              ELSE LET m == CHOOSE x \in S : \A y \in S : x <= y
                   IN <<m>> \o InOrder(S \ {m})

RECURSIVE SumSeq(_)
SumSeq(s) == IF s = <<>> THEN 0 ELSE Head(s) + SumSeq(Tail(s))

\* faulty variant of the first reference to a set of keys: nothing is inserted
no_insert(d, S) == d

\* faulty variant of the defaultdict read: the entries read are set to zero
zero_on_read(d, S) == [k \in DOMAIN d \cup S |-> IF k \in S THEN 0 ELSE d[k]]

\* defaultdict: each key of S that is read for the first time is inserted
TouchAll(d, S) == d @@ [k \in S \ DOMAIN d |-> 0]

NoLog == [w |-> Empty, b |-> Empty, x |-> Empty]

\* no pickle file has been written
NoFile == [missing |-> TRUE]

\* no clipping helper is called on its own
NoCall == [helper |-> "none", gradient |-> 0, clipval |-> 0, out |-> 0, called |-> FALSE]

Snapshot == [weights |-> weights, biases |-> biases, vectors |-> vectors, wm |-> wm]

\* ------------------------------------------------------------- construction
\* gaussian_id is the identity plus small noise: the identity here
gaussian_id == 1

\* the fixed unitary convolution matrix of a label (HolographicNetwork)
get_convolution_matrix(dep) == IF dep = "det" THEN -1 ELSE 1

\* random_vecs: one normalised vector per vocabulary word
random_vecs == [w \in Vocab |-> IF w = "cat" THEN 2 ELSE -3]

\* the model as its constructor leaves it, with the embedding table vecs
Constructed(vecs) ==
    /\ net \in Nets
    /\ tree = <<>>
    /\ computed = <<>>
    /\ embedding = <<>>
    /\ hasEmb = {}
    /\ gradient = <<>>
    /\ hasGrad = {}
    /\ weights = [d \in Deps |-> IF net = "dependency" THEN gaussian_id
                                  ELSE get_convolution_matrix(d)]
    /\ biases = IF net = "dependency" THEN [d \in Deps |-> 0] ELSE Empty
    /\ wm = gaussian_id
    /\ vectors = vecs
    /\ wgrads = Empty
    /\ bgrads = Empty
    /\ xgrads = Empty
    /\ dwm = 0
    /\ pc = "idle"
    /\ pos = 0
    /\ passNo = 0
    /\ calls = 0
    /\ visits = <<>>
    /\ marked = {}
    /\ last = "none"
    /\ log = NoLog
    /\ before = Snapshot
    /\ cell = "none"
    /\ batch = <<>>
    /\ bsize = 0
    /\ seqlen = 0
    /\ acts = Empty
    /\ params = Empty
    /\ grads = Empty
    /\ file = NoFile
    /\ raised = "none"
    /\ clip = NoCall

Init ==
    /\ corpus \in Trees
    /\ Constructed(random_vecs)

\* the parses of any string: the parser returns no token for the empty string
AnyTrees == Trees \cup {<<>>}

AnyInit ==
    /\ corpus \in AnyTrees
    /\ Constructed(random_vecs)

\* the root sat with the one child cat, its subject, in both orders of the
\* node list
SatCat == {<<[text |-> "cat", dep |-> "nsubj", head |-> 2],
             [text |-> "sat", dep |-> "ROOT", head |-> 2]>>,
           <<[text |-> "sat", dep |-> "ROOT", head |-> 1],
             [text |-> "cat", dep |-> "nsubj", head |-> 1]>>}

\* embedding tables with known fixed vectors
FixedVecs == [Vocab -> (0 - MaxVec)..MaxVec]

\* a model built with known vectors, and a sentence of sat and its subject cat
FixedInit ==
    /\ corpus \in SatCat
    /\ \E vecs \in FixedVecs : Constructed(vecs)

\* numpy's quotient of zeros by zero, nan: a value outside every range
nan == 0 - MaxMagnitude * MaxMagnitude

\* a call is made while every parameter is within +-MaxMagnitude, which keeps
\* every product of a pass within 32-bit integers
InRange ==
    /\ Abs(wm) <= MaxMagnitude
    /\ \A d \in DOMAIN weights : Abs(weights[d]) <= MaxMagnitude
    /\ \A d \in DOMAIN biases : Abs(biases[d]) <= MaxMagnitude
    /\ \A w \in DOMAIN vectors : Abs(vectors[w]) <= MaxMagnitude

\* ------------------------------------------------------------- forward
\* the guard of compute_embeddings on a node of the list
uncomputed(node) == ~computed[node]

\* faulty variants of the guard on the children: none at all, and any child in
\* place of all children
children_ignored(node) == TRUE

some_child_computed(node) == \E c \in get_children(node) : computed[c]

children_computed(node) == \A c \in get_children(node) : computed[c]

\* the term one child adds to the embedding of its head
child_term(c) ==
    Lookup(weights, tree[c].dep) * embedding[c] + Lookup(biases, tree[c].dep)

\* faulty variant of embed_node: a word without a vector counts as a unit input
embed_unit_default(node) ==
    LET word == tree[node].text
        cs == InOrder(get_children(node))
        sum == SumSeq([i \in 1..Len(cs) |-> child_term(cs[i])])
        inp == IF word \in DOMAIN vectors THEN vectors[word] ELSE 1
    IN IF net = "dependency" THEN tanh(wm * inp + sum) ELSE inp + sum

\* the value embed_node gives to node.embedding
embed_value(node) ==
    LET word == tree[node].text
        cs == InOrder(get_children(node))
        sum == SumSeq([i \in 1..Len(cs) |-> child_term(cs[i])])
    IN IF net = "dependency"
       THEN tanh((IF word \in DOMAIN vectors THEN wm * vectors[word] ELSE 0) + sum)
       ELSE (IF word \in DOMAIN vectors THEN vectors[word] ELSE 0) + sum

forward_pass ==
    /\ pc = "idle"
    /\ calls < MaxCalls
    /\ InRange
    /\ calls' = calls + 1
    /\ tree' = corpus
    /\ computed' = [n \in 1..Len(corpus) |-> FALSE]
    /\ embedding' = [n \in 1..Len(corpus) |-> 0]
    /\ gradient' = [n \in 1..Len(corpus) |-> 0]
    /\ hasEmb' = {}
    /\ hasGrad' = {}
    /\ visits' = [n \in 1..Len(corpus) |-> 0]
    /\ marked' = {}
    /\ pc' = "fwd"
    /\ pos' = 1
    /\ passNo' = 1
    /\ last' = "none"
    /\ UNCHANGED <<net, corpus, weights, biases, wm, vectors, wgrads, bgrads,
                   xgrads, dwm, log, before>>
    /\ UNCHANGED chainVars
    /\ UNCHANGED clipVars
    /\ UNCHANGED ioVars

\* one iteration of the for loop of compute_embeddings
compute_embeddings_step ==
    /\ pc = "fwd"
    /\ pos <= N
    /\ pos' = pos + 1
    /\ IF uncomputed(pos) /\ children_computed(pos)
       THEN LET deps == {tree[c].dep : c \in get_children(pos)}
            IN /\ embedding' = [embedding EXCEPT ![pos] = embed_value(pos)]
               /\ hasEmb' = hasEmb \cup {pos}
               /\ computed' = [computed EXCEPT ![pos] = TRUE]
               /\ weights' = TouchAll(weights, deps)
               /\ biases' = TouchAll(biases, deps)
               /\ visits' = [visits EXCEPT ![pos] = @ + 1]
               /\ marked' = marked \cup {pos}
       ELSE UNCHANGED <<embedding, hasEmb, computed, weights, biases, visits, marked>>
    /\ UNCHANGED <<net, corpus, tree, gradient, hasGrad, wm, vectors, wgrads,
                   bgrads, xgrads, dwm, pc, passNo, calls, last, log, before>>
    /\ UNCHANGED chainVars
    /\ UNCHANGED clipVars
    /\ UNCHANGED ioVars

\* the depth at which the interpreter stops a recursion (its recursion limit),
\* beyond the depth that any well-formed tree needs
RecursionLimit == MaxNodes + 2

\* faulty variant of the test that ends the traversal: one pass is enough
one_pass_only == TRUE

\* all(node.computed for node in self.tree)
nodes_computed == \A n \in Nodes : computed[n]

\* the for loop is over and a node is left: compute_embeddings calls itself
compute_embeddings_recurse ==
    /\ pc = "fwd"
    /\ pos = N + 1
    /\ ~nodes_computed
    /\ passNo < RecursionLimit
    /\ pos' = 1
    /\ passNo' = passNo + 1
    /\ marked' = {}
    /\ UNCHANGED <<net, corpus, tree, computed, embedding, hasEmb, gradient,
                   hasGrad, weights, biases, wm, vectors, wgrads, bgrads, xgrads,
                   dwm, pc, calls, visits, last, log, before>>
    /\ UNCHANGED chainVars
    /\ UNCHANGED clipVars
    /\ UNCHANGED ioVars

\* every node is computed: compute_embeddings returns, forward_pass resets
\* the graph (reset_comp_graph) and returns
compute_embeddings_return ==
    /\ pc = "fwd"
    /\ pos = N + 1
    /\ nodes_computed
    /\ computed' = [n \in Nodes |-> FALSE]
    /\ pc' = "idle"
    /\ last' = "fwd"
    /\ UNCHANGED <<net, corpus, tree, embedding, hasEmb, gradient, hasGrad,
                   weights, biases, wm, vectors, wgrads, bgrads, xgrads, dwm,
                   pos, passNo, calls, visits, marked, log, before>>
    /\ UNCHANGED chainVars
    /\ UNCHANGED clipVars
    /\ UNCHANGED ioVars

\* ------------------------------------------------------------- backward
\* clip_gradient: a gradient of norm above clipval is rescaled to norm clipval
clip_gradient(g) == IF Abs(g) > ClipVal THEN (g \div Abs(g)) * ClipVal ELSE g

\* the sequence s with x appended under key k of a defaultdict of lists
Append1(d, k, x) == [k2 \in DOMAIN d \cup {k} |->
                        IF k2 = k THEN Append(IF k \in DOMAIN d THEN d[k] ELSE <<>>, x)
                        ELSE d[k2]]

\* _update_word_grad: what a node of gradient g adds to xgrads of its word
word_grad(g) == IF net = "dependency" THEN wm * g ELSE g

\* _update_word_grad: what a node of gradient g adds to dwm
dwm_grad(node, g) ==
    IF net = "dependency" /\ tree[node].text \in DOMAIN vectors
    THEN g * vectors[tree[node].text] ELSE 0

\* _set_root_gradient: the gradient given to the root
root_gradient(grad) ==
    IF net = "dependency" THEN grad * tanh_grad(get_root_embedding) ELSE grad

backward_pass(error_grad) ==
    /\ pc = "idle"
    /\ last # "none"
    /\ calls < MaxCalls
    /\ InRange
    /\ calls' = calls + 1
    /\ wgrads' = IF net = "dependency" THEN Empty ELSE wgrads
    /\ bgrads' = Empty
    /\ IF N = 0
       THEN /\ xgrads' = Empty
            /\ dwm' = IF net = "dependency" THEN 0 ELSE dwm
            /\ log' = NoLog
            /\ UNCHANGED <<gradient, hasGrad, computed>>
       ELSE LET g == root_gradient(error_grad)
            IN /\ gradient' = [gradient EXCEPT ![Root] = g]
               /\ hasGrad' = hasGrad \cup {Root}
               /\ computed' = [computed EXCEPT ![Root] = TRUE]
               /\ xgrads' = AddTo(Empty, tree[Root].text, word_grad(g))
               /\ dwm' = IF net = "dependency" THEN dwm_grad(Root, g) ELSE dwm
               /\ log' = [w |-> Empty, b |-> Empty,
                          x |-> Append1(Empty, tree[Root].text, word_grad(g))]
    /\ visits' = [n \in Nodes |-> IF n = Root THEN 1 ELSE 0]
    /\ marked' = {}
    /\ before' = Snapshot
    /\ pc' = "bwd"
    /\ pos' = 1
    /\ passNo' = 1
    /\ last' = "none"
    /\ UNCHANGED <<net, corpus, tree, embedding, hasEmb, weights, biases, wm,
                   vectors>>
    /\ UNCHANGED chainVars
    /\ UNCHANGED clipVars
    /\ UNCHANGED ioVars

\* faulty variant of the guard on the parent: none at all
parent_ignored(node) == TRUE

\* the guard of compute_gradients on a node of the list
parent_computed(node) == computed[get_parent(node)]

\* one iteration of the for loop of compute_gradients
compute_gradients_step ==
    /\ pc = "bwd"
    /\ pos <= N
    /\ pos' = pos + 1
    /\ IF uncomputed(pos) /\ parent_computed(pos)
       THEN LET parent == get_parent(pos)
                dep == tree[pos].dep
                pg == IF net = "dependency" THEN clip_gradient(gradient[parent])
                      ELSE gradient[parent]
                wgrad == pg * embedding[pos]
                cgrad == Lookup(weights, dep) * pg
                g == IF net = "dependency" THEN cgrad * tanh_grad(embedding[pos])
                     ELSE cgrad
            IN /\ gradient' = [gradient EXCEPT ![parent] = pg, ![pos] = g]
               /\ hasGrad' = hasGrad \cup {pos}
               /\ weights' = Touch(weights, dep)
               /\ wgrads' = IF net = "dependency" THEN AddTo(wgrads, dep, wgrad)
                            ELSE wgrads
               /\ bgrads' = AddTo(bgrads, dep, pg)
               /\ computed' = [computed EXCEPT ![pos] = TRUE]
               /\ xgrads' = AddTo(xgrads, tree[pos].text, word_grad(g))
               /\ dwm' = dwm + dwm_grad(pos, g)
               /\ visits' = [visits EXCEPT ![pos] = @ + 1]
               /\ marked' = marked \cup {pos}
               /\ log' = [w |-> IF net = "dependency" THEN Append1(log.w, dep, wgrad)
                                ELSE log.w,
                          b |-> Append1(log.b, dep, pg),
                          x |-> Append1(log.x, tree[pos].text, word_grad(g))]
       ELSE UNCHANGED <<gradient, hasGrad, weights, wgrads, bgrads, computed,
                        xgrads, dwm, visits, marked, log>>
    /\ UNCHANGED <<net, corpus, tree, embedding, hasEmb, biases, wm, vectors, pc,
                   passNo, calls, last, before>>
    /\ UNCHANGED chainVars
    /\ UNCHANGED clipVars
    /\ UNCHANGED ioVars

\* the for loop is over and a node is left: compute_gradients calls itself
compute_gradients_recurse ==
    /\ pc = "bwd"
    /\ pos = N + 1
    /\ ~nodes_computed
    /\ pos' = 1
    /\ passNo' = passNo + 1
    /\ marked' = {}
    /\ UNCHANGED <<net, corpus, tree, computed, embedding, hasEmb, gradient,
                   hasGrad, weights, biases, wm, vectors, wgrads, bgrads, xgrads,
                   dwm, pc, calls, visits, last, log, before>>
    /\ UNCHANGED chainVars
    /\ UNCHANGED clipVars
    /\ UNCHANGED ioVars

\* faulty variant of depcount: the length of the tree
len_tree(dep) == N

\* update_weights: the number of nodes of the tree that carry the label
depcount(dep) == Cardinality({n \in Nodes : tree[n].dep = dep})

\* update_weights: the labels whose weight and bias are updated
updated_deps == IF net = "dependency" THEN DOMAIN wgrads ELSE DOMAIN bgrads

\* update_word_embeddings: the number of nodes of the tree that carry the word
word_count(word) == Cardinality({n \in Nodes : tree[n].text = word})

\* update_word_embeddings: the nodes whose word is updated, in loop order
updated_nodes == [n \in Nodes |-> n]

\* faulty variant of update_word_embeddings: every word of the vocabulary is
\* moved by the gradient of the word of the root
update_every_word(vecs, i) ==
    [w \in DOMAIN vecs |-> vecs[w] - Rate * Lookup(xgrads, tree[Root].text)]

\* update_word_embeddings: the loop over the nodes, from position i on
RECURSIVE update_word_embeddings(_, _)
update_word_embeddings(vecs, i) ==
    IF i > Len(updated_nodes) THEN vecs
    ELSE LET word == tree[updated_nodes[i]].text
         IN IF word \in DOMAIN vecs
            THEN update_word_embeddings(
                     [vecs EXCEPT ![word] =
                         @ - (Rate * Lookup(xgrads, word)) \div word_count(word)],
                     i + 1)
            ELSE update_word_embeddings(vecs, i + 1)

\* faulty variant of update_weights: the weight of a label moves with its bias
weights_follow_biases ==
    [d \in DOMAIN weights \cup updated_deps |->
        IF d \in updated_deps
        THEN Lookup(weights, d) - (Rate * Lookup(bgrads, d)) \div depcount(d)
        ELSE weights[d]]

\* update_weights: self.weights after the call; HolographicNetwork.update_weights
\* updates the biases alone
updated_weights ==
    IF net = "dependency"
    THEN [d \in DOMAIN weights \cup updated_deps |->
             IF d \in updated_deps
             THEN Lookup(weights, d) - (Rate * wgrads[d]) \div depcount(d)
             ELSE weights[d]]
    ELSE weights

\* every node is computed: compute_gradients returns, backward_pass updates the
\* weights and biases (update_weights), then the word embeddings
\* (update_word_embeddings), and returns
compute_gradients_return ==
    /\ pc = "bwd"
    /\ pos = N + 1
    /\ nodes_computed
    /\ weights' = updated_weights
    /\ biases' = [d \in DOMAIN biases \cup updated_deps |->
                     IF d \in updated_deps
                     THEN Lookup(biases, d) - (Rate * Lookup(bgrads, d)) \div depcount(d)
                     ELSE biases[d]]
    /\ bgrads' = TouchAll(bgrads, updated_deps)
    /\ wm' = IF net = "dependency"
             THEN (IF N = 0 THEN nan ELSE wm - (Rate * dwm) \div N)
             ELSE wm
    /\ vectors' = update_word_embeddings(vectors, 1)
    /\ xgrads' = TouchAll(xgrads, {tree[n].text : n \in Nodes} \cap DOMAIN vectors)
    /\ pc' = "idle"
    /\ last' = "bwd"
    /\ UNCHANGED <<net, corpus, tree, computed, embedding, hasEmb, gradient,
                   hasGrad, wgrads, dwm, pos, passNo, calls, visits, marked, log,
                   before>>
    /\ UNCHANGED chainVars
    /\ UNCHANGED clipVars
    /\ UNCHANGED ioVars

Next ==
    \/ forward_pass
    \/ compute_embeddings_step
    \/ compute_embeddings_recurse
    \/ compute_embeddings_return
    \/ \E error_grad \in ErrorGrads : backward_pass(error_grad)
    \/ compute_gradients_step
    \/ compute_gradients_recurse
    \/ compute_gradients_return

Spec == Init /\ [][Next]_vars

\* the tree models on the parse of any string, the empty one included
AnySpec == AnyInit /\ [][Next]_vars

FixedNext ==
    \/ forward_pass
    \/ compute_embeddings_step
    \/ compute_embeddings_recurse
    \/ compute_embeddings_return

\* the forward pass of the tree models with known vectors on sat and cat
FixedSpec == FixedInit /\ [][FixedNext]_vars

\* a node list has a cycle when following the heads from a node that is not
\* its own head leads back to it
Cyclic(t) ==
    \E n \in DOMAIN t :
        /\ t[n].head # n
        /\ \E k \in 1..Len(t) : HeadIter(t, n, k) = n

\* the nodes of a cycle
OnCycle(t) ==
    {n \in DOMAIN t : t[n].head # n /\ \E k \in 1..Len(t) : HeadIter(t, n, k) = n}

\* node lists of the word cat, well formed or with a cycle among the heads
Graphs ==
    LET Lists == UNION {[1..n -> [text : {"cat"}, dep : {"ROOT", "nsubj"}, head : 1..n]] :
                           n \in 1..MaxNodes}
    IN {t \in Lists : /\ \A n \in DOMAIN t : (t[n].dep = "ROOT") <=> (t[n].head = n)
                      /\ (WellFormed(t) \/ Cyclic(t))}

CyclicInit ==
    /\ corpus \in Graphs
    /\ Constructed(random_vecs)

\* the recursion of compute_embeddings is as deep as the interpreter allows
\* and a node is still left: the next call raises RecursionError, which leaves
\* forward_pass
compute_embeddings_overflow ==
    /\ pc = "fwd"
    /\ pos = N + 1
    /\ ~nodes_computed
    /\ passNo = RecursionLimit
    /\ raised' = "RecursionError"
    /\ pc' = "idle"
    /\ UNCHANGED <<net, corpus, tree, computed, embedding, hasEmb, gradient,
                   hasGrad, weights, biases, wm, vectors, wgrads, bgrads, xgrads,
                   dwm, pos, passNo, calls, visits, marked, last, log, before,
                   file>>
    /\ UNCHANGED chainVars
    /\ UNCHANGED clipVars

CyclicNext ==
    \/ Next
    \/ compute_embeddings_overflow

\* the tree models on node lists that may hold a cycle
CyclicSpec == CyclicInit /\ [][CyclicNext]_vars

FairCyclicSpec ==
    CyclicSpec /\ WF_vars(compute_embeddings_step \/ compute_embeddings_recurse
                          \/ compute_embeddings_return \/ compute_embeddings_overflow
                          \/ compute_gradients_step \/ compute_gradients_recurse
                          \/ compute_gradients_return)

\* the traversals are ordinary function calls that run to completion
FairSpec == Spec /\ WF_vars(compute_embeddings_step \/ compute_embeddings_recurse
                            \/ compute_embeddings_return \/ compute_gradients_step
                            \/ compute_gradients_recurse \/ compute_gradients_return)

\* ------------------------------------------------------------- persistence
\* self.dim
dim == 1

\* self.vocab: sorted(list(vocab))
vocab == <<"cat", "sat">>

\* whether the instance has the attribute wm: DependencyNetwork.__init__ sets
\* it, HolographicNetwork.__init__ replaces that constructor and does not
hasattr_wm == net = "dependency"

\* pickle.dump of a dict: its items, one (key, value) pair per key
dump_dict(d) == {<<k, d[k]>> : k \in DOMAIN d}

\* pickle.load of a dict: the mapping rebuilt from the pickled items
load_dict(items) ==
    [k \in {it[1] : it \in items} |-> (CHOOSE it \in items : it[1] = k)[2]]

\* save: the params dict as pickle.dump writes it
pickled ==
    [biases |-> dump_dict(biases), weights |-> dump_dict(weights), wm |-> wm,
     vectors |-> dump_dict(vectors), vocab |-> vocab, dim |-> dim]

\* save(filename): building the params dict reads self.wm, which raises
\* AttributeError before the file is opened when the attribute is missing
save ==
    /\ pc = "idle"
    /\ net \in Nets
    /\ IF hasattr_wm
       THEN /\ file' = pickled
            /\ raised' = "none"
       ELSE /\ raised' = "AttributeError"
            /\ UNCHANGED file
    /\ UNCHANGED <<net, corpus, vectors, xgrads, calls, last, log, before>>
    /\ UNCHANGED treeVars
    /\ UNCHANGED chainVars
    /\ UNCHANGED clipVars

\* load(filename) of a file that save has written
load ==
    /\ pc = "idle"
    /\ net \in Nets
    /\ file # NoFile
    /\ vectors' = load_dict(file.vectors)
    /\ weights' = load_dict(file.weights)
    /\ biases' = load_dict(file.biases)
    /\ wm' = file.wm
    /\ raised' = "none"
    /\ UNCHANGED <<net, corpus, tree, computed, embedding, hasEmb, gradient,
                   hasGrad, wgrads, bgrads, xgrads, dwm, pc, pos, passNo, calls,
                   visits, marked, last, log, before, file>>
    /\ UNCHANGED chainVars
    /\ UNCHANGED clipVars

SaveNext ==
    \/ Next
    \/ save
    \/ load

\* the tree models with save and load called between the passes
SaveSpec == Init /\ [][SaveNext]_vars

\* ------------------------------------------------------------- chain models
\* the tokens of a sentence; Cat is cat with a capital, which RecurrentNetwork
\* does not have in its vocabulary and LSTM looks up as cat
ChainTokens == {"cat", "Cat"}

\* str.lower on the tokens
lower(w) == IF w = "Cat" THEN "cat" ELSE IF w = "PAD" THEN "pad" ELSE w

\* the sentences of at most MaxLen tokens and the batches of at most MaxBatch
\* sentences
Sentences == UNION {[1..n -> ChainTokens] : n \in 1..MaxLen}

Batches == UNION {[1..n -> Sentences] : n \in 1..MaxBatch}

\* the learning rate of the chain models: the least integer that the batch size
\* times any occurrence count divides
ChainRate == LcmUpTo(MaxBatch) * LcmUpTo(MaxBatch * MaxLen)

\* sigmoid: the saturation of its argument at 0 and 1
sigmoid(x) == IF x >= 1 THEN 1 ELSE IF x <= 0 THEN 0 ELSE x

sigmoid_grad(x) == x * (1 - x)

\* the key under which a token is looked up: LSTM lowercases it
key(word) == IF cell = "lstm" THEN lower(word) ELSE word

\* a numpy array over the batch: the function with its values computed
Array(f) == f @@ Empty

\* indices of the batch dimension and sums over it
Idx == 1..bsize

RECURSIVE SumOver(_, _)
SumOver(f, S) == IF S = {} THEN 0
                 ELSE LET x == CHOOSE y \in S : TRUE IN f[x] + SumOver(f, S \ {x})

\* np.dot(a, b.T) of two rows over the batch
Dot(a, b) == SumOver(Array([idx \in DOMAIN a |-> a[idx] * b[idx]]), DOMAIN a)

\* np.sum(a, axis=1)
RowSum(a) == SumOver(a, DOMAIN a)

\* random_vecs of a vocabulary that has the cat, sat and the PAD sentinel
chain_vecs == random_vecs @@ ("PAD" :> 1)

ChainInit ==
    /\ cell \in {"rnn", "lstm"}
    /\ corpus \in Batches
    /\ net = "none"
    /\ tree = <<>>
    /\ computed = <<>>
    /\ embedding = <<>>
    /\ hasEmb = {}
    /\ gradient = <<>>
    /\ hasGrad = {}
    /\ weights = Empty
    /\ biases = Empty
    /\ wm = 0
    /\ wgrads = Empty
    /\ bgrads = Empty
    /\ dwm = 0
    /\ pc = "idle"
    /\ pos = 0
    /\ passNo = 0
    /\ visits = <<>>
    /\ marked = {}
    /\ vectors = chain_vecs
    /\ xgrads = Empty
    /\ calls = 0
    /\ last = "none"
    /\ log = NoLog
    /\ before = [vectors |-> chain_vecs, params |-> Empty]
    /\ batch = <<>>
    /\ bsize = 0
    /\ seqlen = 0
    /\ acts = Empty
    /\ grads = Empty
    /\ file = NoFile
    /\ raised = "none"
    /\ clip = NoCall
    /\ params = IF cell = "rnn"
                THEN [Whh |-> gaussian_id, Why |-> gaussian_id, bh |-> 0, by |-> 0]
                ELSE [iW |-> 1, iU |-> 1, i_bias |-> 3, fW |-> 1, fU |-> 1, f_bias |-> 3,
                      oW |-> 1, oU |-> 1, o_bias |-> 3, uW |-> 1, uU |-> 1, u_bias |-> 0,
                      yW |-> 1, y_bias |-> 0]

\* faulty variant of the padding: PAD is appended on the right
pad_right(sen, len) == Array([i \in 1..len |-> IF i <= Len(sen) THEN sen[i] ELSE "PAD"])

\* forward_pass: every sentence is padded on the left to the longest one
pad(sen, len) == Array([i \in 1..len |-> IF i <= len - Len(sen) THEN "PAD"
                                   ELSE sen[i - (len - Len(sen))]])

\* the words of sequence position i (positions count from 0) over a batch b
words(b, i) == Array([idx \in DOMAIN b |-> b[idx][i + 1]])

\* faulty variant of to_array: PAD is looked up like a word
to_array_pad(vecs, ws) == Array([idx \in DOMAIN ws |->
                    IF key(ws[idx]) \in DOMAIN vecs THEN vecs[key(ws[idx])] ELSE 0])

\* to_array: the input row of the words of one sequence position, read from
\* the embedding table vecs (self.vectors)
to_array(vecs, ws) == Array([idx \in DOMAIN ws |->
                    IF ws[idx] # "PAD" /\ key(ws[idx]) \in DOMAIN vecs
                    THEN vecs[key(ws[idx])] ELSE 0])

\* RecurrentNetwork.compute_embeddings: the hidden states hs[-1..i]
RECURSIVE rnn_hs(_, _, _)
rnn_hs(vecs, b, i) ==
    IF i = -1 THEN (-1 :> Array([idx \in DOMAIN b |-> 0]))
    ELSE LET prev == rnn_hs(vecs, b, i - 1)
             xs == to_array(vecs, words(b, i))
         IN prev @@ (i :> Array([idx \in DOMAIN b |->
                tanh(params.Whh * prev[i - 1][idx] + xs[idx] + params.bh)]))

\* LSTM.compute_embeddings: the gates, cell states and hidden states up to i
RECURSIVE lstm_states(_, _, _)
lstm_states(vecs, b, i) ==
    IF i = -1
    THEN [hs |-> (-1 :> Array([idx \in DOMAIN b |-> 0])),
          cell_states |-> (-1 :> Array([idx \in DOMAIN b |-> 0])),
          i_gates |-> Empty, o_gates |-> Empty, f_gates |-> Empty,
          cell_inputs |-> Empty, xs |-> Empty]
    ELSE LET prev == lstm_states(vecs, b, i - 1)
             xs == to_array(vecs, words(b, i))
             h == prev.hs[i - 1]
             ig == Array([idx \in DOMAIN b |->
                      sigmoid(params.iW * xs[idx] + params.iU * h[idx] + params.i_bias)])
             og == Array([idx \in DOMAIN b |->
                      sigmoid(params.oW * xs[idx] + params.oU * h[idx] + params.o_bias)])
             fg == Array([idx \in DOMAIN b |->
                      sigmoid(params.fW * xs[idx] + params.fU * h[idx] + params.f_bias)])
             ci == Array([idx \in DOMAIN b |->
                      tanh(params.uW * xs[idx] + params.uU * h[idx] + params.u_bias)])
             cst == Array([idx \in DOMAIN b |->
                      ig[idx] * ci[idx] + fg[idx] * prev.cell_states[i - 1][idx]])
         IN [hs |-> prev.hs @@ (i :> Array([idx \in DOMAIN b |-> og[idx] * tanh(cst[idx])])),
             cell_states |-> prev.cell_states @@ (i :> cst),
             i_gates |-> prev.i_gates @@ (i :> ig),
             o_gates |-> prev.o_gates @@ (i :> og),
             f_gates |-> prev.f_gates @@ (i :> fg),
             cell_inputs |-> prev.cell_inputs @@ (i :> ci),
             xs |-> prev.xs @@ (i :> xs)]

\* a call is made while every parameter is small enough for the products of
\* back-propagation through time to stay within 32-bit integers
ChainInRange ==
    /\ \A w \in DOMAIN vectors : Abs(vectors[w]) <= MaxMagnitude \div 100
    /\ \A k \in DOMAIN params : Abs(params[k]) <= MaxMagnitude \div 100

\* the gradients of a pass are small enough for their products with the rate
GradsInRange(gs) == \A k \in DOMAIN gs : Abs(gs[k]) <= MaxMagnitude * 100

\* compute_embeddings of the chain models on the padded batch b of length len
\* with the embedding table vecs: the activations and the output ys
chain_compute_embeddings(vecs, b, len) ==
    IF cell = "rnn"
    THEN LET hs == rnn_hs(vecs, b, len - 1)
         IN [hs |-> hs,
             ys |-> Array([idx \in DOMAIN b |->
                       tanh(params.Why * hs[len - 1][idx] + params.by)])]
    ELSE LET st == lstm_states(vecs, b, len - 1)
         IN st @@ [ys |-> Array([idx \in DOMAIN b |->
                       tanh(params.yW * st.hs[len - 1][idx] + params.y_bias)])]

\* RecurrentNetwork.forward_pass and LSTM.forward_pass
chain_forward_pass ==
    /\ cell \in {"rnn", "lstm"}
    /\ calls < MaxCalls
    /\ ChainInRange
    /\ calls' = calls + 1
    /\ LET len == Max({Len(corpus[x]) : x \in DOMAIN corpus})
           b == [x \in DOMAIN corpus |-> pad(corpus[x], len)]
       IN /\ batch' = b
          /\ bsize' = Len(corpus)
          /\ seqlen' = len
          /\ acts' = chain_compute_embeddings(vectors, b, len)
    /\ last' = "fwd"
    /\ UNCHANGED <<net, corpus, vectors, xgrads, log, before, cell, params, grads>>
    /\ UNCHANGED treeVars
    /\ UNCHANGED clipVars
    /\ UNCHANGED ioVars

\* the sequence positions and sentences at which a key stands (PAD left out)
Places(k) == {pl \in (0..(seqlen - 1)) \X Idx :
                 /\ batch[pl[2]][pl[1] + 1] # "PAD"
                 /\ key(batch[pl[2]][pl[1] + 1]) = k}

\* xgrads after the loop over the words of position i, whose input gradients
\* are dx: a word that is PAD is skipped
RECURSIVE add_xgrads(_, _, _, _)
add_xgrads(xg, i, dx, idx) ==
    IF idx > bsize THEN xg
    ELSE LET word == batch[idx][i + 1]
         IN IF word # "PAD"
            THEN add_xgrads(AddTo(xg, key(word), dx[idx]), i, dx, idx + 1)
            ELSE add_xgrads(xg, i, dx, idx + 1)

\* the contributions to xgrads in the order they are added, for the record
RECURSIVE add_log(_, _, _, _)
add_log(lg, i, dx, idx) ==
    IF idx > bsize THEN lg
    ELSE LET word == batch[idx][i + 1]
         IN IF word # "PAD"
            THEN add_log(Append1(lg, key(word), [pos |-> i, idx |-> idx, g |-> dx[idx]]),
                         i, dx, idx + 1)
            ELSE add_log(lg, i, dx, idx + 1)

\* faulty variant of the term of dwhh: the gradient of the position itself
dwhh_of_dh(i, dh_next, dh) == Dot(dh, acts.hs[i])

\* what position i adds to dwhh: np.dot(dh_next, self.hs[i].T), with the
\* gradient dh_next of the position after i, zeros at the last position
dwhh_term(i, dh_next, dh) == Dot(dh_next, acts.hs[i])

\* RecurrentNetwork.backward_pass: the loop over the positions, from i down
RECURSIVE rnn_bptt(_, _)
rnn_bptt(i, acc) ==
    IF i < 0 THEN acc
    ELSE LET dh == IF i < seqlen - 1
                   THEN Array([idx \in Idx |-> (params.Whh * acc.dh_next[idx])
                                            * tanh_grad(acts.hs[i][idx])])
                   ELSE acc.dh
         IN rnn_bptt(i - 1,
                [dh |-> dh,
                 dwhh |-> acc.dwhh + dwhh_term(i, acc.dh_next, dh),
                 dbh |-> acc.dbh + RowSum(dh),
                 dh_next |-> dh,
                 xgrads |-> add_xgrads(acc.xgrads, i, dh, 1),
                 log |-> add_log(acc.log, i, dh, 1)])

\* LSTM.backward_pass: the loop over the positions, from i down
RECURSIVE lstm_bptt(_, _)
lstm_bptt(i, acc) ==
    IF i < 0 THEN acc
    ELSE LET d_cell_state == Array([idx \in Idx |->
                 acc.h_grad[idx] * acts.o_gates[i][idx]
                     * tanh_grad(tanh(acts.cell_states[i][idx])) + acc.s_grad[idx]])
             d_o_gate == Array([idx \in Idx |->
                 acc.h_grad[idx] * tanh(acts.cell_states[i][idx])
                     * sigmoid_grad(acts.o_gates[i][idx])])
             d_f_gate == Array([idx \in Idx |->
                 d_cell_state[idx] * acts.cell_states[i - 1][idx]
                     * sigmoid_grad(acts.f_gates[i][idx])])
             d_i_gate == Array([idx \in Idx |->
                 d_cell_state[idx] * acts.cell_inputs[i][idx]
                     * sigmoid_grad(acts.i_gates[i][idx])])
             d_cell_input == Array([idx \in Idx |->
                 d_cell_state[idx] * acts.i_gates[i][idx]
                     * tanh_grad(acts.cell_inputs[i][idx])])
             dx == Array([idx \in Idx |->
                 params.oW * d_o_gate[idx] + params.iW * d_i_gate[idx]
                     + params.fW * d_f_gate[idx] + params.uW * d_cell_input[idx]])
             dh == Array([idx \in Idx |->
                 params.oU * d_o_gate[idx] + params.iU * d_i_gate[idx]
                     + params.fU * d_f_gate[idx] + params.uU * d_cell_input[idx]])
         IN lstm_bptt(i - 1,
                [doW |-> acc.doW + Dot(d_o_gate, acts.xs[i]),
                 diW |-> acc.diW + Dot(d_i_gate, acts.xs[i]),
                 dfW |-> acc.dfW + Dot(d_f_gate, acts.xs[i]),
                 duW |-> acc.duW + Dot(d_cell_input, acts.xs[i]),
                 doU |-> acc.doU + Dot(d_o_gate, acts.hs[i - 1]),
                 diU |-> acc.diU + Dot(d_i_gate, acts.hs[i - 1]),
                 dfU |-> acc.dfU + Dot(d_f_gate, acts.hs[i - 1]),
                 duU |-> acc.duU + Dot(d_cell_input, acts.hs[i - 1]),
                 i_bias_grad |-> acc.i_bias_grad + RowSum(d_i_gate),
                 f_bias_grad |-> acc.f_bias_grad + RowSum(d_f_gate),
                 o_bias_grad |-> acc.o_bias_grad + RowSum(d_o_gate),
                 u_bias_grad |-> acc.u_bias_grad + RowSum(d_cell_input),
                 h_grad |-> dh,
                 s_grad |-> Array([idx \in Idx |-> acts.f_gates[i][idx] * d_cell_state[idx]]),
                 xgrads |-> add_xgrads(acc.xgrads, i, dx, 1),
                 log |-> add_log(acc.log, i, dx, 1)])

\* rate times the gradient g averaged over the batch
mean_step(g) == (ChainRate * g) \div bsize

\* rate times clip_gradient of the gradient g averaged over the batch
clipped_step(g) ==
    IF Abs(g) > 5 * bsize THEN ChainRate * ((g \div Abs(g)) * 5) ELSE mean_step(g)

\* the tokens of the batch that are not PAD, and their distinct surface forms
Surface == {batch[idx][i] : idx \in Idx, i \in 1..seqlen} \ {"PAD"}

\* word_set: the key of each distinct surface form, as a list
word_set == LET forms == CHOOSE q \in [1..Cardinality(Surface) -> Surface] :
                              \A a, c \in DOMAIN q : a # c => q[a] # q[c]
            IN [j \in DOMAIN forms |-> key(forms[j])]

\* all_words.count(word): the places of the batch whose key is the word
all_words_count(word) == Cardinality(Places(word))

\* faulty variant of the divisor: the occurrence count alone
count_only(word) == all_words_count(word)

\* what the stored gradient of a word is divided by: the batch size (the
\* division of xgrads) and the occurrence count of the word
xgrad_divisor(word) == bsize * all_words_count(word)

\* the loop over word_set that updates the word embeddings, from position j on
RECURSIVE update_vectors(_, _, _)
update_vectors(vecs, xg, j) ==
    IF j > Len(word_set) THEN vecs
    ELSE LET word == word_set[j]
         IN IF word \in DOMAIN vecs
            THEN update_vectors(
                     [vecs EXCEPT ![word] = @ - (ChainRate * xg[word]) \div xgrad_divisor(word)],
                     xg, j + 1)
            ELSE update_vectors(vecs, xg, j + 1)

Zeros == Array([idx \in Idx |-> 0])

\* RecurrentNetwork.backward_pass
rnn_backward_pass(error_grad) ==
    /\ cell = "rnn"
    /\ last # "none"
    /\ calls < MaxCalls
    /\ ChainInRange
    /\ calls' = calls + 1
    /\ LET eg == Array([idx \in Idx |-> error_grad[idx] * tanh_grad(acts.ys[idx])])
           dwhy == Dot(eg, acts.hs[seqlen - 1])
           dby == RowSum(eg)
           dh == Array([idx \in Idx |-> (params.Why * eg[idx]) * tanh_grad(acts.hs[seqlen - 1][idx])])
           r == rnn_bptt(seqlen - 1,
                         [dh |-> dh, dwhh |-> 0, dbh |-> 0, dh_next |-> Zeros,
                          xgrads |-> Empty, log |-> Empty])
       IN /\ GradsInRange(r.xgrads)
          /\ GradsInRange([dwhy |-> dwhy, dwhh |-> r.dwhh, dbh |-> r.dbh, dby |-> dby])
          /\ grads' = [dwhy |-> dwhy, dwhh |-> r.dwhh, dbh |-> r.dbh, dby |-> dby]
          /\ xgrads' = r.xgrads
          /\ log' = [w |-> Empty, b |-> Empty, x |-> r.log]
          /\ params' = [Why |-> params.Why - clipped_step(dwhy),
                        Whh |-> params.Whh - clipped_step(r.dwhh),
                        bh |-> params.bh - clipped_step(r.dbh),
                        by |-> params.by - clipped_step(dby)]
          /\ vectors' = update_vectors(vectors, r.xgrads, 1)
    /\ before' = [vectors |-> vectors, params |-> params]
    /\ last' = "bwd"
    /\ UNCHANGED <<net, corpus, cell, batch, bsize, seqlen, acts>>
    /\ UNCHANGED treeVars
    /\ UNCHANGED clipVars
    /\ UNCHANGED ioVars

\* LSTM.backward_pass
lstm_backward_pass(error_grad) ==
    /\ cell = "lstm"
    /\ last # "none"
    /\ calls < MaxCalls
    /\ ChainInRange
    /\ calls' = calls + 1
    /\ LET eg == Array([idx \in Idx |-> error_grad[idx] * tanh_grad(acts.ys[idx])])
           dyW == 0
           y_bias_grad == RowSum(eg)
           r == lstm_bptt(seqlen - 1,
                          [doW |-> 0, diW |-> 0, dfW |-> 0, duW |-> 0,
                           doU |-> 0, diU |-> 0, dfU |-> 0, duU |-> 0,
                           i_bias_grad |-> 0, f_bias_grad |-> 0, o_bias_grad |-> 0,
                           u_bias_grad |-> 0,
                           h_grad |-> Array([idx \in Idx |-> params.yW * eg[idx]]),
                           s_grad |-> Zeros, xgrads |-> Empty, log |-> Empty])
       IN /\ GradsInRange(r.xgrads)
          /\ GradsInRange([k \in DOMAIN r \ {"h_grad", "s_grad", "xgrads", "log"} |-> r[k]])
          /\ grads' = [dyW |-> dyW, doW |-> r.doW, dfW |-> r.dfW, diW |-> r.diW,
                       duW |-> r.duW, doU |-> r.doU, dfU |-> r.dfU, diU |-> r.diU,
                       duU |-> r.duU, i_bias_grad |-> r.i_bias_grad,
                       f_bias_grad |-> r.f_bias_grad, o_bias_grad |-> r.o_bias_grad,
                       u_bias_grad |-> r.u_bias_grad, y_bias_grad |-> y_bias_grad]
          /\ xgrads' = r.xgrads
          /\ log' = [w |-> Empty, b |-> Empty, x |-> r.log]
          /\ params' = [yW |-> params.yW - mean_step(dyW),
                        oW |-> params.oW - mean_step(r.doW),
                        fW |-> params.fW - mean_step(r.dfW),
                        iW |-> params.iW - mean_step(r.diW),
                        uW |-> params.uW - mean_step(r.duW),
                        oU |-> params.oU - mean_step(r.doU),
                        fU |-> params.fU - mean_step(r.dfU),
                        iU |-> params.iU - mean_step(r.diU),
                        uU |-> params.uU - mean_step(r.duU),
                        i_bias |-> params.i_bias - mean_step(r.i_bias_grad),
                        f_bias |-> params.f_bias - mean_step(r.f_bias_grad),
                        o_bias |-> params.o_bias - mean_step(r.o_bias_grad),
                        u_bias |-> params.u_bias - mean_step(r.u_bias_grad),
                        y_bias |-> params.y_bias - mean_step(y_bias_grad)]
          /\ vectors' = update_vectors(vectors, r.xgrads, 1)
    /\ before' = [vectors |-> vectors, params |-> params]
    /\ last' = "bwd"
    /\ UNCHANGED <<net, corpus, cell, batch, bsize, seqlen, acts>>
    /\ UNCHANGED treeVars
    /\ UNCHANGED clipVars
    /\ UNCHANGED ioVars

ChainNext ==
    \/ chain_forward_pass
    \/ \E error_grad \in [Idx -> ErrorGrads] : rnn_backward_pass(error_grad)
    \/ \E error_grad \in [Idx -> ErrorGrads] : lstm_backward_pass(error_grad)

ChainSpec == ChainInit /\ [][ChainNext]_vars

\* every model variant: a tree network or a chain network is constructed and
\* its own forward_pass and backward_pass are called
ModelInit == Init \/ ChainInit

ModelNext ==
    \/ net \in Nets /\ Next
    \/ cell \in {"rnn", "lstm"} /\ ChainNext

ModelSpec == ModelInit /\ [][ModelNext]_vars

\* ------------------------------------------------------------- clipping
\* the four gradient-clipping helpers, called on their own with a gradient and
\* a clipval argument; with one dimension the norm is the absolute value
norm(g) == Abs(g)

\* RecurrentNetwork.clip_gradient(gradient, clipval)
rnn_clip_gradient(g, clipval) ==
    IF norm(g) > clipval
    THEN (g \div norm(g)) * 5
    ELSE g

\* LSTM.clip_grad(gradient, clipval)
lstm_clip_grad(g, clipval) ==
    IF norm(g) > clipval
    THEN (g \div norm(g)) * 5
    ELSE g

\* TreeLSTM.clip_gradient(gradient, clipval)
treelstm_clip_gradient(g, clipval) ==
    IF norm(g) > clipval
    THEN (g \div norm(g)) * clipval
    ELSE g

\* DependencyNetwork.clip_gradient(node, clipval): node.gradient after the call
dependency_clip_gradient(g, clipval) ==
    IF norm(g) > clipval
    THEN (g \div norm(g)) * clipval
    ELSE g

Helpers == {"RecurrentNetwork.clip_gradient", "LSTM.clip_grad",
            "TreeLSTM.clip_gradient", "DependencyNetwork.clip_gradient"}

\* the calls made: any gradient and any positive clipval within the bounds
ClipCalls == [helper : Helpers, gradient : (0 - MaxGrad)..MaxGrad,
              clipval : 1..MaxClipval, out : {0}, called : {FALSE}]

\* the helpers read and write no attribute of the model but the gradient (and
\* RecurrentNetwork's clipflag), so no model state is set up for the call
ClipInit ==
    /\ clip \in ClipCalls
    /\ net = "none"
    /\ cell = "none"
    /\ corpus = <<>>
    /\ tree = <<>>
    /\ computed = <<>>
    /\ embedding = <<>>
    /\ hasEmb = {}
    /\ gradient = <<>>
    /\ hasGrad = {}
    /\ weights = Empty
    /\ biases = Empty
    /\ wm = 0
    /\ vectors = Empty
    /\ wgrads = Empty
    /\ bgrads = Empty
    /\ xgrads = Empty
    /\ dwm = 0
    /\ pc = "idle"
    /\ pos = 0
    /\ passNo = 0
    /\ calls = 0
    /\ visits = <<>>
    /\ marked = {}
    /\ last = "none"
    /\ log = NoLog
    /\ before = Empty
    /\ batch = <<>>
    /\ bsize = 0
    /\ seqlen = 0
    /\ acts = Empty
    /\ params = Empty
    /\ grads = Empty
    /\ file = NoFile
    /\ raised = "none"

\* the call of helper h returns, or leaves in node.gradient, the value result
clip_returns(h, result) ==
    /\ clip.helper = h
    /\ ~clip.called
    /\ clip' = [clip EXCEPT !.out = result, !.called = TRUE]
    /\ UNCHANGED <<net, corpus, vectors, xgrads, calls, last, log, before>>
    /\ UNCHANGED treeVars
    /\ UNCHANGED chainVars
    /\ UNCHANGED ioVars

call_rnn_clip_gradient ==
    clip_returns("RecurrentNetwork.clip_gradient",
                 rnn_clip_gradient(clip.gradient, clip.clipval))

call_lstm_clip_grad ==
    clip_returns("LSTM.clip_grad", lstm_clip_grad(clip.gradient, clip.clipval))

call_treelstm_clip_gradient ==
    clip_returns("TreeLSTM.clip_gradient",
                 treelstm_clip_gradient(clip.gradient, clip.clipval))

call_dependency_clip_gradient ==
    clip_returns("DependencyNetwork.clip_gradient",
                 dependency_clip_gradient(clip.gradient, clip.clipval))

ClipNext ==
    \/ call_rnn_clip_gradient
    \/ call_lstm_clip_grad
    \/ call_treelstm_clip_gradient
    \/ call_dependency_clip_gradient

ClipSpec == ClipInit /\ [][ClipNext]_vars

\* ------------------------------------------------------------- claims
Leaves == {n \in Nodes : get_children(n) = {}}

\* C1: on a well-formed tree the forward traversal terminates, and when
\* forward_pass returns every node of the tree has an embedding, the root,
\* whose embedding get_root_embedding returns, included.
C1_ForwardTerminates ==
    [](pc = "fwd" => <>(pc = "idle" /\ last = "fwd" /\ hasEmb = Nodes /\ Root \in hasEmb))

\* a forward traversal of a tree of MaxNodes nodes returned after several passes
C1_Witness ==
    /\ last = "fwd"
    /\ N = MaxNodes
    /\ passNo >= 2
    /\ hasEmb = Nodes

\* C2: a node is given its embedding only in a step in which each of its
\* children is marked computed and has its embedding of this forward pass; a
\* node without children has its embedding when the first pass is over.
C2_ChildrenFirst ==
    [][pc = "fwd" =>
          /\ \A n \in Nodes : (n \notin hasEmb /\ n \in hasEmb') =>
                \A c \in get_children(n) : computed[c] /\ c \in hasEmb
          /\ (pos = N + 1 /\ passNo = 1) => Leaves \subseteq hasEmb]_vars

\* a node with two children was embedded after both of them
C2_Witness ==
    /\ pc = "fwd"
    /\ \E n \in Nodes : /\ Cardinality(get_children(n)) = 2
                        /\ n \in hasEmb
                        /\ get_children(n) \subseteq hasEmb

\* C3: every full pass of compute_embeddings marks at least one node that was
\* not computed before it, and the number of full passes is at most the number
\* of nodes on the longest root-to-leaf path, whatever the order of the list.
C3_PassProgress ==
    pc = "fwd" =>
        /\ passNo <= Depth(tree)
        /\ pos = N + 1 => marked # {}

\* a chain of MaxNodes nodes listed root first takes MaxNodes passes
C3_Witness ==
    /\ last = "fwd"
    /\ N = MaxNodes
    /\ Depth(tree) = MaxNodes
    /\ passNo = MaxNodes

\* C4: backward_pass seeds the root with the error gradient, a node other
\* than the root is given its gradient only in a step in which its parent is
\* marked computed and has a gradient, and compute_gradients terminates with
\* every node marked computed.
C4_ParentFirst ==
    /\ [][/\ (pc = "idle" /\ pc' = "bwd") =>
                /\ computed'[Root] /\ Root \in hasGrad' /\ visits'[Root] = 1
                /\ \E g \in ErrorGrads : gradient'[Root] = root_gradient(g)
          /\ pc = "bwd" =>
                \A n \in Nodes : visits'[n] > visits[n] =>
                    /\ n # Root
                    /\ computed[get_parent(n)]
                    /\ get_parent(n) \in hasGrad]_vars
    /\ [](pc = "bwd" => <>(pc = "idle" /\ last = "bwd" /\ nodes_computed))

\* a backward traversal of a chain of MaxNodes nodes returned after several
\* passes, each node having been given its gradient
C4_Witness ==
    /\ last = "bwd"
    /\ N = MaxNodes
    /\ passNo >= 2
    /\ hasGrad = Nodes
    /\ \A n \in Nodes : visits[n] = 1

\* C5: within one traversal a computed flag never goes back to uncomputed, and
\* each node is given its activation (forward) or gradient (backward) exactly
\* once by the time the traversal returns.
C5_ExactlyOnce ==
    /\ pc \in {"fwd", "bwd"} => \A n \in Nodes : visits[n] <= 1
    /\ last \in {"fwd", "bwd"} => \A n \in Nodes : visits[n] = 1

\* C6: when a backward traversal begins, every node other than the root is
\* uncomputed.
C6_ResetBeforeBackward ==
    (pc = "bwd" /\ passNo = 1 /\ pos = 1) => \A n \in Nodes \ {Root} : ~computed[n]

\* the number of nodes of the tree that carry a label
Occurrences(d) == Cardinality({n \in Nodes : tree[n].dep = d})

LogOf(l, d) == IF d \in DOMAIN l THEN l[d] ELSE <<>>

\* the gradient applied for label d is the sum of its contributions over k
AppliedIsMean(d, k) ==
    /\ Len(LogOf(log.b, d)) = k
    /\ (Lookup(before.biases, d) - Lookup(biases, d)) * k = Rate * SumSeq(LogOf(log.b, d))
    /\ net = "dependency" =>
          /\ Len(LogOf(log.w, d)) = k
          /\ (Lookup(before.weights, d) - Lookup(weights, d)) * k
                 = Rate * SumSeq(LogOf(log.w, d))

\* C7 as stated: for every label that occurs on k nodes of the tree, the
\* gradient applied is the sum of the contributions accumulated for the label
\* divided by k, and k contributions were accumulated.
C7_Original ==
    last = "bwd" => \A d \in {tree[n].dep : n \in Nodes} : AppliedIsMean(d, Occurrences(d))

\* C7 as amended: for every label that was given a contribution in the pass,
\* occurring on k nodes of the tree, the weight and bias gradient applied is the
\* sum of the contributions accumulated for the label divided by k, and k
\* contributions were accumulated; a label that was given none, the root's
\* label among them, has its weight and bias left as they were.
C7_RoleMean ==
    last = "bwd" =>
        /\ \A d \in DOMAIN log.b : AppliedIsMean(d, Occurrences(d))
        /\ \A d \in DOMAIN before.weights \ DOMAIN log.b :
              /\ weights[d] = before.weights[d]
              /\ Lookup(biases, d) = Lookup(before.biases, d)

\* a label on two nodes was given two contributions of nonzero sum
C7_Witness ==
    /\ last = "bwd"
    /\ net = "dependency"
    /\ \E d \in DOMAIN log.w : /\ Len(log.w[d]) = 2
                               /\ Occurrences(d) = 2
                               /\ SumSeq(log.w[d]) # 0
                               /\ weights[d] # before.weights[d]

\* C8: a vocabulary word that occurs on k nodes of the tree has its embedding
\* changed in total by rate times its accumulated gradient divided by k.
C8_WordMean ==
    last = "bwd" =>
        \A w \in DOMAIN vectors :
            LET k == Cardinality({n \in Nodes : tree[n].text = w})
            IN k >= 1 => (before.vectors[w] - vectors[w]) * k = Rate * Lookup(xgrads, w)

\* the sum of the contributions of a record of a chain model
RECURSIVE SumG(_)
SumG(q) == IF q = <<>> THEN 0 ELSE Head(q).g + SumG(Tail(q))

\* the places at which the contributions of a record were made
LogPlaces(q) == {<<q[j].pos, q[j].idx>> : j \in DOMAIN q}

\* the distinct surface forms of the batch that are looked up under a key
Forms(k) == {s \in Surface : key(s) = k}

C10_Frame ==
    (pc = "bwd" \/ last = "bwd") =>
        /\ \A w \in DOMAIN before.vectors \ {tree[n].text : n \in Nodes} :
              vectors[w] = before.vectors[w]
        /\ net = "dependency" =>
              \A d \in DOMAIN before.weights \ {tree[n].dep : n \in Nodes \ {Root}} :
                  /\ weights[d] = before.weights[d]
                  /\ biases[d] = before.biases[d]

\* a pass changed the embedding of the word of the tree and the weight of its
\* label, with a vocabulary word and a label left that the tree does not have
C10_Witness ==
    /\ last = "bwd"
    /\ net = "dependency"
    /\ \E w \in DOMAIN vectors : vectors[w] # before.vectors[w]
    /\ \E d \in DOMAIN weights : weights[d] # before.weights[d]
    /\ DOMAIN vectors \ {tree[n].text : n \in Nodes} # {}
    /\ NonRootDeps \ {tree[n].dep : n \in Nodes} # {}

\* C11: after forward_pass on a chain model the stored batch is rectangular:
\* it has one sequence per sentence, every sequence has length seqlen, the
\* greatest token count of the batch, and each sequence is seqlen minus its
\* token count PAD tokens followed by the tokens of the sentence in their order.
C11_LeftPadded ==
    (cell # "none" /\ last # "none") =>
        /\ bsize = Len(corpus)
        /\ DOMAIN batch = DOMAIN corpus
        /\ \A x \in DOMAIN corpus : Len(corpus[x]) <= seqlen
        /\ \E x \in DOMAIN corpus : Len(corpus[x]) = seqlen
        /\ \A x \in DOMAIN batch :
              LET diff == seqlen - Len(corpus[x])
              IN /\ DOMAIN batch[x] = 1..seqlen
                 /\ \A i \in 1..diff : batch[x][i] = "PAD"
                 /\ \A i \in 1..Len(corpus[x]) : batch[x][diff + i] = corpus[x][i]

\* a batch of a sentence of one token and a sentence of MaxLen tokens went
\* through forward_pass: the short one was padded
C11_Witness ==
    /\ cell # "none"
    /\ last = "fwd"
    /\ seqlen = MaxLen
    /\ \E x, y \in DOMAIN corpus : /\ Len(corpus[x]) = 1
                                  /\ Len(corpus[y]) = MaxLen
                                  /\ batch[x][1] = "PAD"
                                  /\ batch[x][seqlen] = corpus[x][1]

\* the embedding table with another value stored for PAD
OtherPad(vecs) == [vecs EXCEPT !["PAD"] = @ + 1]

\* C12: the entry of PAD in the embedding table is not read by forward_pass
\* and not written by backward_pass, and no gradient is accumulated for PAD: on
\* the same batch, a table that differs only in the value stored for PAD gives
\* the same activations and root embedding, the same update of every other
\* word, and keeps its own value for PAD.
C12_PadIgnored ==
    (cell # "none" /\ last # "none") =>
        /\ ChainInRange =>
              chain_compute_embeddings(OtherPad(vectors), batch, seqlen)
                  = chain_compute_embeddings(vectors, batch, seqlen)
        /\ last = "fwd" => acts = chain_compute_embeddings(OtherPad(vectors), batch, seqlen)
        /\ "PAD" \notin DOMAIN xgrads
        /\ vectors["PAD"] = chain_vecs["PAD"]
        /\ last = "bwd" =>
              /\ vectors = update_vectors(before.vectors, xgrads, 1)
              /\ update_vectors(OtherPad(before.vectors), xgrads, 1) = OtherPad(vectors)

\* a backward pass on a batch with a padded sentence changed the embedding of
\* a word, the table having an entry for PAD
C12_Witness ==
    /\ cell = "rnn"
    /\ last = "bwd"
    /\ "PAD" \in DOMAIN vectors
    /\ \E idx \in Idx : batch[idx][1] = "PAD"
    /\ vectors["cat"] # before.vectors["cat"]

\* what the children of node n bring to its embedding
ChildSum(n) ==
    LET cs == InOrder(get_children(n))
    IN SumSeq([i \in 1..Len(cs) |-> child_term(cs[i])])

Referenced == {tree[c].dep : c \in UNION {get_children(n) : n \in hasEmb}}

\* C14: a dependency label without an entry is given a zero weight and a zero
\* bias when it is first referenced: every label that a pass has referenced has
\* both entries, at every step of the pass and after it, and as long as no
\* backward pass has run a label that the model was not built with has zero
\* parameters and brings nothing to its parent's embedding.
C14_LazyZeroParameters ==
    /\ tree # <<>> =>
           /\ Referenced \subseteq DOMAIN weights
           /\ Referenced \subseteq DOMAIN biases
           /\ updated_deps \subseteq DOMAIN weights
           /\ (pc = "idle" /\ last = "bwd") => updated_deps \subseteq DOMAIN biases
    /\ xgrads = Empty =>
           /\ \A d \in DOMAIN weights \ Deps : weights[d] = 0
           /\ \A d \in DOMAIN biases \ Deps : biases[d] = 0
           /\ tree # <<>> =>
                  \A c \in UNION {get_children(n) : n \in hasEmb} :
                      tree[c].dep \notin Deps => child_term(c) = 0

\* a forward pass is over on a tree whose root has a child with the unlisted
\* label, embedded from a word of the vocabulary, and no backward pass has run
C14_Witness ==
    /\ pc = "idle" /\ last = "fwd" /\ xgrads = Empty
    /\ tree # <<>>
    /\ \E c \in get_children(Root) :
           /\ tree[c].dep \notin Deps
           /\ embedding[c] # 0
           /\ tree[c].dep \in DOMAIN weights
           /\ tree[c].dep \in DOMAIN biases

\* what load would restore from the file that save writes now
Restored ==
    [weights |-> load_dict(pickled.weights), biases |-> load_dict(pickled.biases),
     vectors |-> load_dict(pickled.vectors), wm |-> pickled.wm]

\* C15: between any passes, save followed by load succeeds and leaves dim,
\* vocab, the embedding table and every per-role weight and bias as they were:
\* no save or load raises, and what load restores from the file that save
\* writes is the state at the save.
C15_SaveLoadRoundTrip ==
    /\ raised = "none"
    /\ (pc = "idle" /\ net \in Nets) =>
           /\ Restored = Snapshot
           /\ pickled.dim = dim
           /\ pickled.vocab = vocab

\* the part of C15 that the tied-tree model meets: its save never raises, and
\* a load that follows a save at once changes nothing
C15_DependencyRoundTrip ==
    [][net = "dependency" =>
          /\ raised' = "none"
          /\ (load /\ file = pickled) => Snapshot' = Snapshot]_vars

ChainDivisors ==
    (cell # "none" /\ last = "bwd") =>
        /\ bsize >= 1
        /\ \A j \in DOMAIN word_set : all_words_count(word_set[j]) >= 1

\* C17: every divisor that a backward pass averages a gradient by is at least
\* 1: depcount of every updated label, the count of every node's word, the
\* node count len(tree) that divides dwm, and the batch size.
C17_DivisorsAtLeastOne ==
    /\ pc = "bwd" =>
           /\ \A d \in updated_deps : depcount(d) >= 1
           /\ \A n \in Nodes : word_count(tree[n].text) >= 1
           /\ net = "dependency" => N >= 1
    /\ wm # nan
    /\ ChainDivisors

\* C18: in the backward pass of the tree models, the gradient of every node
\* (root, internal node or leaf) has norm at most 5 by the time it has been
\* used: clip_gradient rescales node.gradient in place, so a node that has
\* been given its gradient and has added it to the accumulators holds a
\* gradient of norm at most clipval.
C18_ClippedBeforeUse ==
    pc = "bwd" => \A n \in Nodes : visits[n] >= 1 => Abs(gradient[n]) <= ClipVal

\* C19: in the tied-tree model the embedding of a leaf is the vector of its
\* word, so on the tree of sat with the one child cat (nsubj), with identity
\* weights and zero biases, the root embedding is
\* tanh(vector(sat) + I * vector(cat)).
C19_LeafIsWordVector ==
    (net = "dependency" /\ tree \in SatCat /\ (pc = "fwd" \/ last = "fwd")
        /\ wm = 1 /\ weights["nsubj"] = 1 /\ biases["nsubj"] = 0) =>
        \A leaf \in Leaves :
            /\ leaf \in hasEmb => embedding[leaf] = vectors["cat"]
            /\ Root \in hasEmb =>
                   embedding[Root] = tanh(vectors["sat"] + 1 * vectors["cat"])

\* what the code computes on that tree: the leaf passes through the matrix wm
\* and through tanh like every other node
C19_LeafThroughTanh ==
    (net = "dependency" /\ tree \in SatCat /\ (pc = "fwd" \/ last = "fwd")
        /\ wm = 1 /\ weights["nsubj"] = 1 /\ biases["nsubj"] = 0) =>
        \A leaf \in Leaves :
            /\ leaf \in hasEmb => embedding[leaf] = tanh(vectors["cat"])
            /\ Root \in hasEmb =>
                   embedding[Root] = tanh(vectors["sat"] + 1 * tanh(vectors["cat"]))

\* C20 as claimed: once forward_pass has been called on a node list with a
\* cycle, the traversal is under way for ever: nothing stops it.
C20_Original ==
    (tree # <<>> /\ Cyclic(tree)) => pc = "fwd"

\* C20, amended: on a node list with a cycle compute_embeddings never has all
\* nodes computed and never returns to forward_pass: the nodes of the cycle
\* are never embedded, from the pass after the last node off the cycle on a
\* full pass marks nothing, and the traversal is stopped only by the
\* interpreter, with RecursionError at its recursion limit.
C20_CycleNeverEmbedded ==
    (tree # <<>> /\ Cyclic(tree)) =>
        /\ last # "fwd"
        /\ \A n \in OnCycle(tree) : ~computed[n] /\ n \notin hasEmb
        /\ (pc = "fwd" /\ passNo >= N) => marked = {}
        /\ pc = "idle" => (raised = "RecursionError" /\ passNo = RecursionLimit)

\* the traversal of a node list with a cycle and a node off the cycle has been
\* stopped by the interpreter; the node off the cycle is embedded
C20_Witness ==
    /\ tree # <<>> /\ Cyclic(tree)
    /\ pc = "idle" /\ raised = "RecursionError"
    /\ hasEmb # {}

\* under way on a node list with a cycle, the traversal ends in RecursionError
C20_EndsInRecursionError ==
    (pc = "fwd" /\ Cyclic(tree)) ~> (pc = "idle" /\ raised = "RecursionError")

\* C21: in HolographicNetwork no sequence of forward and backward passes
\* changes the weight matrix of a known dependency label: it stays the
\* convolution matrix set at construction, and a label met later keeps the
\* zero matrix it was created with; training changes biases and word
\* embeddings only.
C21_HolographicWeightsFixed ==
    net = "holographic" =>
        /\ \A d \in Deps : d \in DOMAIN weights /\ weights[d] = get_convolution_matrix(d)
        /\ \A d \in DOMAIN weights \ Deps : weights[d] = 0

\* a backward pass of HolographicNetwork has moved a bias and a word vector
C21_Witness ==
    /\ net = "holographic" /\ pc = "idle" /\ last = "bwd"
    /\ \E d \in DOMAIN biases : biases[d] # 0
    /\ vectors # random_vecs

\* the steps of a forward pass, in the tree and in the chain variants
ForwardStep ==
    \/ forward_pass
    \/ compute_embeddings_step
    \/ compute_embeddings_recurse
    \/ compute_embeddings_return
    \/ chain_forward_pass

\* every entry of the table old is an entry of new with the same value
Kept(old, new) == \A k \in DOMAIN old : k \in DOMAIN new /\ new[k] = old[k]

\* C22: in every model variant no step of forward_pass changes the value of
\* an existing weight matrix, bias vector, structural matrix (wm, params) or
\* word embedding; get_root_embedding only reads the root's embedding.
C22_ForwardKeepsParameters ==
    [][ForwardStep =>
          /\ Kept(weights, weights')
          /\ Kept(biases, biases')
          /\ Kept(vectors, vectors')
          /\ Kept(params, params')
          /\ wm' = wm]_vars

\* a forward pass has returned in a tree network whose parameters an earlier
\* backward pass had trained away from their initial values
C22_Witness ==
    /\ net \in Nets /\ pc = "idle" /\ last = "fwd" /\ calls >= 2
    /\ tree # <<>> /\ Root \in hasEmb
    /\ vectors # random_vecs
    /\ \E d \in DOMAIN biases : biases[d] # 0

\* C24: each gradient-clipping helper, for any gradient and any positive
\* clipval, leaves the gradient as it is when its norm is at most clipval and
\* otherwise rescales it to a gradient whose norm is clipval.
C24_ClipToClipval ==
    clip.called =>
        IF norm(clip.gradient) <= clip.clipval
        THEN clip.out = clip.gradient
        ELSE norm(clip.out) = clip.clipval

\* the part of C24 the code meets: the two tree helpers clip to clipval, and
\* the two chain helpers do when clipval is the default 5
C24_TreeHelpersAndDefault ==
    (/\ clip.called
     /\ \/ clip.helper \in {"TreeLSTM.clip_gradient", "DependencyNetwork.clip_gradient"}
        \/ clip.clipval = 5) =>
        IF norm(clip.gradient) <= clip.clipval
        THEN clip.out = clip.gradient
        ELSE norm(clip.out) = clip.clipval /\ clip.out * clip.gradient > 0

\* the product of the activation-scaled error gradient with the transposed
\* final hidden state, for the error gradient error_grad
yW_product(error_grad) ==
    Dot(Array([idx \in Idx |-> error_grad[idx] * tanh_grad(acts.ys[idx])]),
        acts.hs[seqlen - 1])

\* C25: LSTM.backward_pass stores as the gradient of yW the product of the
\* activation-scaled error gradient with the transposed final hidden state
\* (divided by the batch size when it is applied), and when that product is
\* not zero the call changes yW.
C25_yWGradient ==
    (cell = "lstm" /\ last = "bwd") =>
        \A error_grad \in [Idx -> ErrorGrads] :
            /\ grads.dyW = yW_product(error_grad)
            /\ params.yW = before.params.yW - mean_step(yW_product(error_grad))
            /\ yW_product(error_grad) # 0 => params.yW # before.params.yW

\* what the code does: the gradient of yW is zero and yW is never changed,
\* whatever the error gradient and the final hidden state are
C25_yWNeverChanges ==
    (cell = "lstm" /\ last = "bwd") =>
        /\ grads.dyW = 0
        /\ params.yW = before.params.yW

\* the gradient of bh that the loop of RecurrentNetwork.backward_pass
\* accumulates from position i down when the parameters are p
RECURSIVE dbh_from(_, _, _)
dbh_from(p, i, dh_next) ==
    IF i < 0 THEN 0
    ELSE LET dh == Array([idx \in Idx |->
                       (p.Whh * dh_next[idx]) * tanh_grad(acts.hs[i][idx])])
         IN RowSum(dh) + dbh_from(p, i - 1, dh)

\* the gradient of bh for the error gradient error_grad and the parameters p
dbh_of(p, error_grad) ==
    LET dh == Array([idx \in Idx |->
                  (p.Why * (error_grad[idx] * tanh_grad(acts.ys[idx])))
                      * tanh_grad(acts.hs[seqlen - 1][idx])])
    IN RowSum(dh) + dbh_from(p, seqlen - 2, dh)

====
